---------------------------- MODULE Spec2Model ----------------------------
(***************************************************************************)
(* Descriptive statistics over tabular datasets: the pure-Python analyzer  *)
(* (pure_python_stats.py), the pandas helper (pandas_stats.py) and the     *)
(* Polars analyzer (polars_stats.py).                                      *)
(*                                                                         *)
(* A dataset is a header plus an ordered sequence of rows, each row a      *)
(* mapping from column name to raw text.  The data frames of the pandas    *)
(* and Polars variants hold the same cells, with the empty field read as   *)
(* a null.                                                                 *)
(***************************************************************************)
EXTENDS Integers, Sequences, FiniteSets, TLC

VARIABLES
    column_names,   \* the header of the file being read
    data_rows,      \* the rows read so far (rows of read_csv_file / the frame)
    loaded,         \* TRUE once the reader has returned
    call,           \* the last operation called and its arguments
    result,         \* what that call returned (or that it raised)
    prev_result     \* what the call before it returned, when it was the same call

vars == <<column_names, data_rows, loaded, call, result, prev_result>>

(***************************************************************************)
(* Bounds of the model.                                                    *)
(***************************************************************************)
MaxRows == 3        \* rows of a one-column file
MaxWideRows == 1    \* rows of a two-column profiling file
MaxGroupRows == 3   \* rows of the grouping file
MaxFrameRows == 2   \* rows of the two-column file the three variants profile
MaxElapsed == 1     \* largest reading of end - start, in clock ticks
MaxAggregateRows == 2   \* rows of the file whose numeric columns are aggregated
MaxClassifyRows == 2    \* rows of the one-column file the three variants classify
MaxNestedRows == 3      \* rows of the file with one nested column
MaxNumericRows == 4     \* rows of the file with one column of numbers

(***************************************************************************)
(* Raw field texts.  DictOfDicts and DictOfInts are Python literals.       *)
(***************************************************************************)
DictOfDicts == "{'n': {'spend': 10, 'impressions': 100}}"
DictOfInts == "{'n': 5}"
DictTie == "{'m': {'spend': 5}, 'f': {'spend': 5}}"
DictZero == "{'m': {'spend': 0}, 'f': {'spend': 0}}"
DictLast == "{'m': {'spend': 5}, 'f': {'spend': 10, 'impressions': 1}}"

ProfileValues == {"", " ", "5", "05", "x", DictOfDicts, DictOfInts}
GroupValues == {"", "a", "a_a"}
FrameValues == {"", " ", "x", "5"}
AggregateValues == {"", "a", "5"}
ClassifyValues == {"", " ", "x", DictOfDicts}
NestedValues == {"", "x", "5", DictOfInts, DictOfDicts, DictTie, DictZero, DictLast}
NumericValues == {"", "5", "7", "x"}

None == [kind |-> "none"]

\* The empty dict {}.
EmptyDict == [kind |-> "empty"]

\* An exception that leaves the called function.
Raise(error) == [kind |-> "raised", error |-> error]

---------------------------------------------------------------------------
(***************************************************************************)
(* Python built-ins on the field texts above.                              *)
(***************************************************************************)

\* str.strip(): the only text with surrounding whitespace is " ".
Strip(text) == IF text = " " THEN "" ELSE text

\* float(text): "5" and "05" both read as 5.0, "7" as 7.0; everything else
\* raises ValueError.
PyFloat(text) ==
    CASE text = "5" -> [ok |-> TRUE, val |-> 5]
      [] text = "7" -> [ok |-> TRUE, val |-> 7]
      [] text = "05" -> [ok |-> TRUE, val |-> 5]
      [] OTHER -> [ok |-> FALSE, val |-> 0]

\* ast.literal_eval(text): "5" and "7" are ints; "05" is a SyntaxError (leading
\* zero); a bare word is a ValueError; the dict literals evaluate to dicts,
\* listed as their items in iteration order.
LiteralEval(text) ==
    CASE text \in {"5", "7"} -> [ok |-> TRUE, is_dict |-> FALSE, items |-> <<>>]
      [] text = DictOfDicts ->
            [ok |-> TRUE, is_dict |-> TRUE,
             items |-> << [key |-> "n", is_dict |-> TRUE,
                           fields |-> [spend |-> 10, impressions |-> 100]] >>]
      [] text = DictOfInts ->
            [ok |-> TRUE, is_dict |-> TRUE,
             items |-> << [key |-> "n", is_dict |-> FALSE,
                           fields |-> <<>>] >>]
      [] text = DictTie ->
            [ok |-> TRUE, is_dict |-> TRUE,
             items |-> << [key |-> "m", is_dict |-> TRUE, fields |-> [spend |-> 5]],
                          [key |-> "f", is_dict |-> TRUE, fields |-> [spend |-> 5]] >>]
      [] text = DictZero ->
            [ok |-> TRUE, is_dict |-> TRUE,
             items |-> << [key |-> "m", is_dict |-> TRUE, fields |-> [spend |-> 0]],
                          [key |-> "f", is_dict |-> TRUE, fields |-> [spend |-> 0]] >>]
      [] text = DictLast ->
            [ok |-> TRUE, is_dict |-> TRUE,
             items |-> << [key |-> "m", is_dict |-> TRUE, fields |-> [spend |-> 5]],
                          [key |-> "f", is_dict |-> TRUE,
                           fields |-> [spend |-> 10, impressions |-> 1]] >>]
      [] OTHER -> [ok |-> FALSE, is_dict |-> FALSE, items |-> <<>>]

\* dict.get(key, default) on a record.
DictGet(d, key, default) == IF key \in DOMAIN d THEN d[key] ELSE default

\* row.get(col, '')
RowGet(row, col) == DictGet(row, col, "")

Range(s) == {s[i] : i \in DOMAIN s}

RECURSIVE SumSeq(_)
SumSeq(s) == IF s = <<>> THEN 0 ELSE Head(s) + SumSeq(Tail(s))

RECURSIVE SelectSeqBy(_, _)
\* [x for x in s if x in keep]
SelectSeqBy(s, keep) ==
    IF s = <<>> THEN <<>>
    ELSE IF Head(s) \in keep
         THEN <<Head(s)>> \o SelectSeqBy(Tail(s), keep)
         ELSE SelectSeqBy(Tail(s), keep)

RECURSIVE Gcd(_, _)
Gcd(a, b) == IF b = 0 THEN a ELSE Gcd(b, a % b)

Abs(a) == IF a < 0 THEN -a ELSE a

\* The quotient num / den (den > 0) as a fraction in lowest terms.
Frac(num, den) ==
    LET g == Gcd(Abs(num), den)
    IN  [num |-> num \div g, den |-> den \div g]


---------------------------------------------------------------------------
(***************************************************************************)
(* pure_python_stats.py: BasicDataAnalyzer                                 *)
(***************************************************************************)

check_if_number(text) ==
    IF text = "" \/ Strip(text) = "" THEN FALSE ELSE PyFloat(text).ok

make_float(text) == IF PyFloat(text).ok THEN PyFloat(text).val ELSE 0

get_average(numbers) ==
    IF numbers = <<>> THEN Frac(0, 1)
    ELSE Frac(SumSeq(numbers), Len(numbers))

\* get_std_dev with the variance taken over n instead of n - 1
get_std_dev_population(numbers) ==
    IF Len(numbers) < 2 THEN [sqrt_of |-> Frac(0, 1)]
    ELSE LET n == Len(numbers)
             s == SumSeq(numbers)
             sq == SumSeq([i \in 1..n |-> numbers[i] * numbers[i]])
         IN  [sqrt_of |-> Frac(n * sq - s * s, n * n)]

\* math.sqrt(variance), kept as the fraction under the root.
get_std_dev(numbers) ==
    IF Len(numbers) < 2 THEN [sqrt_of |-> Frac(0, 1)]
    ELSE LET n == Len(numbers)
             s == SumSeq(numbers)
             sq == SumSeq([i \in 1..n |-> numbers[i] * numbers[i]])
             \* sum((x - avg) ** 2) = (n * sq - s * s) / n
         IN  [sqrt_of |-> Frac(n * sq - s * s, n * (n - 1))]

\* unpack_delivery_by_region with region_data.get(field, 1): a sub-record
\* without the field adds 1
unpack_delivery_by_region_default(row_val) ==
    LET parsed == LiteralEval(row_val)
        n == Len(parsed.items)
    IN  IF ~parsed.ok
        THEN [raised |-> FALSE, total_spend |-> 0, total_impressions |-> 0]
        ELSE IF ~parsed.is_dict \/ \E i \in 1..n : ~parsed.items[i].is_dict
        THEN [raised |-> TRUE, total_spend |-> 0, total_impressions |-> 0]
        ELSE [raised |-> FALSE,
              total_spend |->
                  SumSeq([i \in 1..n |-> DictGet(parsed.items[i].fields, "spend", 1)]),
              total_impressions |->
                  SumSeq([i \in 1..n |->
                            DictGet(parsed.items[i].fields, "impressions", 1)])]

unpack_delivery_by_region(row_val) ==
    LET parsed == LiteralEval(row_val)
        n == Len(parsed.items)
    IN  IF ~parsed.ok
        THEN [raised |-> FALSE, total_spend |-> 0, total_impressions |-> 0]
        ELSE IF ~parsed.is_dict \/ \E i \in 1..n : ~parsed.items[i].is_dict
        THEN [raised |-> TRUE, total_spend |-> 0, total_impressions |-> 0]
        ELSE [raised |-> FALSE,
              total_spend |->
                  SumSeq([i \in 1..n |-> DictGet(parsed.items[i].fields, "spend", 0)]),
              total_impressions |->
                  SumSeq([i \in 1..n |->
                            DictGet(parsed.items[i].fields, "impressions", 0)])]

RECURSIVE DemoLoop(_, _)
\* the loop of unpack_demographics over parsed.items(), from the state acc
DemoLoop(items, acc) ==
    IF items = <<>> THEN acc
    ELSE LET s == DictGet(Head(items).fields, "spend", 0)
             i == DictGet(Head(items).fields, "impressions", 0)
             top == s > acc.max_spend
         IN  DemoLoop(Tail(items),
                      [spend |-> acc.spend + s,
                       impressions |-> acc.impressions + i,
                       max_spend |-> IF top THEN s ELSE acc.max_spend,
                       has_top |-> top \/ acc.has_top,
                       top_demo |-> IF top THEN Head(items).key ELSE acc.top_demo])

\* top_demo_by_spend is None while has_top is FALSE.
unpack_demographics(row_val) ==
    LET parsed == LiteralEval(row_val)
        n == Len(parsed.items)
        zero == [raised |-> FALSE, total_spend |-> 0, total_impressions |-> 0,
                 has_top |-> FALSE, top_demo_by_spend |-> ""]
    IN  IF ~parsed.ok THEN zero
        ELSE IF ~parsed.is_dict \/ \E i \in 1..n : ~parsed.items[i].is_dict
        THEN [zero EXCEPT !.raised = TRUE]
        ELSE LET acc == DemoLoop(parsed.items,
                                 [spend |-> 0, impressions |-> 0, max_spend |-> 0,
                                  has_top |-> FALSE, top_demo |-> ""])
             IN  [raised |-> FALSE, total_spend |-> acc.spend,
                  total_impressions |-> acc.impressions,
                  has_top |-> acc.has_top, top_demo_by_spend |-> acc.top_demo]

RECURSIVE Keys(_)
\* the keys of Counter(s): the distinct elements of s in first-occurrence order
Keys(s) ==
    IF s = <<>> THEN <<>>
    ELSE LET init == Keys(SubSeq(s, 1, Len(s) - 1))
             last == s[Len(s)]
         IN  IF last \in Range(init) THEN init ELSE Append(init, last)

Count(s, v) == Cardinality({i \in DOMAIN s : s[i] = v})

\* Counter(s) as its items, in insertion order
Counter(s) == [i \in DOMAIN Keys(s) |-> <<Keys(s)[i], Count(s, Keys(s)[i])>>]

RemoveAt(s, i) == SubSeq(s, 1, i - 1) \o SubSeq(s, i + 1, Len(s))

RECURSIVE most_common(_, _)
\* Counter.most_common(n): by count descending, equal counts in insertion order
most_common(items, n) ==
    IF items = <<>> \/ n = 0 THEN <<>>
    ELSE LET best == CHOOSE i \in DOMAIN items :
                        /\ \A j \in DOMAIN items : items[j][2] <= items[i][2]
                        /\ \A j \in 1..(i - 1) : items[j][2] < items[i][2]
         IN  <<items[best]>> \o most_common(RemoveAt(items, best), n - 1)

RECURSIVE PyMin(_)
PyMin(s) ==
    IF Len(s) = 1 THEN s[1]
    ELSE LET m == PyMin(Tail(s)) IN IF m < Head(s) THEN m ELSE Head(s)

RECURSIVE PyMax(_)
PyMax(s) ==
    IF Len(s) = 1 THEN s[1]
    ELSE LET m == PyMax(Tail(s)) IN IF m > Head(s) THEN m ELSE Head(s)

Take(s, n) == SubSeq(s, 1, IF Len(s) < n THEN Len(s) ELSE n)


IsRaise(r) == "kind" \in DOMAIN r /\ r.kind = "raised"

\* d[key] = value on a dict kept as its items <<key, value>> in insertion order
DictSet(items, key, value) ==
    IF \E i \in DOMAIN items : items[i][1] = key
    THEN [i \in DOMAIN items |-> IF items[i][1] = key THEN <<key, value>> ELSE items[i]]
    ELSE Append(items, <<key, value>>)

\* is_mostly_numbers with the tie at exactly one half taken as numeric
is_mostly_numbers_tie(number_list, real_values) ==
    Len(number_list) > 0 /\ 2 * Len(number_list) >= Len(real_values)

\* the test of line 122: more than half of the present values are numbers
is_mostly_numbers(number_list, real_values) ==
    Len(number_list) > 0 /\ 2 * Len(number_list) > Len(real_values)

\* real_values with only the empty field dropped (v != '' without the strip)
real_values_unstripped(all_values) == SelectSeq(all_values, LAMBDA v : v # "")

\* the values the column profile keeps as present
real_values_of(all_values) == SelectSeq(all_values, LAMBDA v : Strip(v) # "")

\* number_list with make_float applied to every present value, so that an
\* unparseable one is kept as 0.0
number_list_of_all(real_values) ==
    [i \in DOMAIN real_values |-> make_float(real_values[i])]

\* number_list after the loop of lines 117-120
number_list_of(real_values) ==
    LET numeric == SelectSeq(real_values, check_if_number)
    IN  [i \in DOMAIN numeric |-> make_float(numeric[i])]

look_at_one_column(rows, col_name) ==
    LET all_values == [i \in DOMAIN rows |-> RowGet(rows[i], col_name)]
        real_values == real_values_of(all_values)
        basic_info == [name |-> col_name,
                       total_rows |-> Len(rows),
                       has_data |-> Len(real_values),
                       missing_data |-> Len(rows) - Len(real_values)]
    IN  IF col_name = "delivery_by_region" THEN
            LET unpacked == [i \in DOMAIN real_values |->
                                unpack_delivery_by_region(real_values[i])]
            IN  IF \E i \in DOMAIN unpacked : unpacked[i].raised
                THEN Raise("AttributeError")
                ELSE basic_info @@
                     [data_type |-> "nested_dict",
                      total_spend |->
                          SumSeq([i \in DOMAIN unpacked |-> unpacked[i].total_spend]),
                      total_impressions |->
                          SumSeq([i \in DOMAIN unpacked |->
                                    unpacked[i].total_impressions])]
        ELSE IF col_name = "demographic_distribution" THEN
            LET unpacked == [i \in DOMAIN real_values |->
                                unpack_demographics(real_values[i])]
                with_top == SelectSeq(unpacked,
                                LAMBDA u : u.has_top /\ u.top_demo_by_spend # "")
                top_demos == Counter([i \in DOMAIN with_top |->
                                         with_top[i].top_demo_by_spend])
            IN  IF \E i \in DOMAIN unpacked : unpacked[i].raised
                THEN Raise("AttributeError")
                ELSE basic_info @@
                     [data_type |-> "nested_dict",
                      total_spend |->
                          SumSeq([i \in DOMAIN unpacked |-> unpacked[i].total_spend]),
                      total_impressions |->
                          SumSeq([i \in DOMAIN unpacked |->
                                    unpacked[i].total_impressions]),
                      most_targeted_demo |-> most_common(top_demos, 1)]
        ELSE
            LET number_list == number_list_of(real_values)
            IN  IF is_mostly_numbers(number_list, real_values)
                THEN basic_info @@
                     [data_type |-> "numbers",
                      average |-> get_average(number_list),
                      smallest |-> PyMin(number_list),
                      biggest |-> PyMax(number_list),
                      spread |-> get_std_dev(number_list)]
                ELSE LET word_counter == Counter(real_values)
                     IN  basic_info @@
                         [data_type |-> "text",
                          different_values |-> Len(word_counter),
                          most_common |-> most_common(word_counter, 5),
                          sample_values |-> Take(Keys(real_values), 10)]

\* list(row.keys()): the row's keys in header order
KeysOf(row, header) == SelectSeqBy(header, DOMAIN row)

\* whole_dataset_report with the elapsed time also stored in every column entry
whole_dataset_report_timed(rows, name, header, elapsed) ==
    LET names == IF rows # <<>> THEN KeysOf(rows[1], header) ELSE <<>>
        column_info == [col \in Range(names) |->
                           look_at_one_column(rows, col) @@ [time_taken |-> elapsed]]
    IN  IF \E col \in Range(names) : IsRaise(look_at_one_column(rows, col))
        THEN Raise("AttributeError")
        ELSE [kind |-> "report",
              dataset_info |-> [name |-> name,
                                num_rows |-> Len(rows),
                                num_columns |-> Len(names),
                                column_names |-> names],
              column_info |-> column_info,
              time_taken |-> elapsed]

\* the body of analyze_whole_dataset once data_rows is known to be non-empty;
\* elapsed is end - start
whole_dataset_report(rows, name, header, elapsed) ==
    LET names == IF rows # <<>> THEN KeysOf(rows[1], header) ELSE <<>>
        dataset_info == [name |-> name,
                         num_rows |-> Len(rows),
                         num_columns |-> Len(names),
                         column_names |-> names]
        column_info == [col \in Range(names) |-> look_at_one_column(rows, col)]
    IN  IF \E col \in Range(names) : IsRaise(column_info[col])
        THEN Raise("AttributeError")
        ELSE [kind |-> "report",
              dataset_info |-> dataset_info,
              column_info |-> column_info,
              time_taken |-> elapsed]

analyze_whole_dataset(rows, name, header, elapsed) ==
    IF rows = <<>> THEN [kind |-> "error", error |-> "No data found!"]
    ELSE whole_dataset_report(rows, name, header, elapsed)

\* tuple(row.get(col, '') for col in group_by_cols)
GroupKey(row, cols) == [i \in DOMAIN cols |-> RowGet(row, cols[i])]

RECURSIVE Partition(_, _)
\* my_groups after the loop over the rows: items <<key, rows>>, first seen first
Partition(rows, cols) ==
    IF rows = <<>> THEN <<>>
    ELSE LET init == Partition(SubSeq(rows, 1, Len(rows) - 1), cols)
             row == rows[Len(rows)]
             key == GroupKey(row, cols)
         IN  IF \E i \in DOMAIN init : init[i][1] = key
             THEN [i \in DOMAIN init |->
                     IF init[i][1] = key
                     THEN <<key, Append(init[i][2], row)>> ELSE init[i]]
             ELSE Append(init, <<key, <<row>> >>)

RECURSIVE Join(_)
\* '_'.join(str(k) for k in key)
Join(key) ==
    IF key = <<>> THEN ""
    ELSE IF Len(key) = 1 THEN key[1]
    ELSE key[1] \o "_" \o Join(Tail(key))

\* dict(zip(cols, key))
ZipDict(cols, key) ==
    [c \in Range(cols) |->
        key[CHOOSE i \in DOMAIN cols :
                cols[i] = c /\ \A j \in DOMAIN cols : cols[j] = c => j <= i]]

RECURSIVE GroupResults(_, _)
\* group_results after the loop over my_groups.items()
GroupResults(groups, cols) ==
    IF groups = <<>> THEN <<>>
    ELSE LET g == groups[Len(groups)]
         IN  DictSet(GroupResults(SubSeq(groups, 1, Len(groups) - 1), cols),
                     Join(g[1]),
                     [size |-> Len(g[2]), values |-> ZipDict(cols, g[1])])

\* the body of group_data_by below its guard
group_report(rows, cols) ==
    LET my_groups == Partition(rows, cols)
        sizes == [i \in DOMAIN my_groups |-> Len(my_groups[i][2])]
    IN  IF Len(my_groups) = 0 THEN Raise("ZeroDivisionError")
        ELSE [kind |-> "groups",
              total_groups |-> Len(my_groups),
              group_details |-> GroupResults(my_groups, cols),
              avg_group_size |-> Frac(SumSeq(sizes), Len(my_groups))]

\* group_data_by without its guard on empty arguments
group_data_by_unguarded(rows, cols) == group_report(rows, cols)

group_data_by(rows, cols) ==
    IF rows = <<>> \/ cols = <<>> THEN EmptyDict ELSE group_report(rows, cols)

---------------------------------------------------------------------------
(***************************************************************************)
(* Data frames.  read_csv of either library reads the empty field as a     *)
(* null and every other field of these files as itself; a column is of a   *)
(* numeric dtype when every field it holds reads as a number (in pandas    *)
(* also when it holds no field at all: float64 NaN).                       *)
(***************************************************************************)

IsNull(v) == v = ""

NaN == [nan |-> TRUE]

IsNaN(x) == "nan" \in DOMAIN x

ColumnOf(rows, col) == [i \in DOMAIN rows |-> rows[i][col]]

NonNull(values) == SelectSeq(values, LAMBDA v : ~IsNull(v))

pandas_is_numeric(rows, col) ==
    \A i \in DOMAIN rows : IsNull(rows[i][col]) \/ PyFloat(rows[i][col]).ok

polars_is_numeric(rows, col) ==
    /\ pandas_is_numeric(rows, col)
    /\ \E i \in DOMAIN rows : ~IsNull(rows[i][col])

\* Fractions.
FInt(n) == [num |-> n, den |-> 1]
FAdd(a, b) == Frac(a.num * b.den + b.num * a.den, a.den * b.den)
FSub(a, b) == Frac(a.num * b.den - b.num * a.den, a.den * b.den)
FMul(a, b) == Frac(a.num * b.num, a.den * b.den)
FLess(a, b) == a.num * b.den < b.num * a.den

RECURSIVE FSum(_)
FSum(s) == IF s = <<>> THEN FInt(0) ELSE FAdd(Head(s), FSum(Tail(s)))

\* Series.mean() / .min() / .max() / .std() over the non-NaN entries
SeriesMean(s) ==
    IF s = <<>> THEN NaN
    ELSE LET t == FSum(s) IN Frac(t.num, t.den * Len(s))

SeriesMin(s) ==
    IF s = <<>> THEN NaN
    ELSE s[CHOOSE i \in DOMAIN s : \A j \in DOMAIN s : ~FLess(s[j], s[i])]

SeriesMax(s) ==
    IF s = <<>> THEN NaN
    ELSE s[CHOOSE i \in DOMAIN s : \A j \in DOMAIN s : ~FLess(s[i], s[j])]

SeriesStd(s) ==
    IF Len(s) < 2 THEN NaN
    ELSE LET m == SeriesMean(s)
             dev == [i \in DOMAIN s |-> FMul(FSub(s[i], m), FSub(s[i], m))]
             t == FSum(dev)
         IN  [sqrt_of |-> Frac(t.num, t.den * (Len(s) - 1))]

\* the k-th quartile by linear interpolation
Quartile(s, k) ==
    IF s = <<>> THEN NaN
    ELSE LET sorted == SortSeq(s, FLess)
             h == (Len(s) - 1) * k
             lo == (h \div 4) + 1
             rem == h % 4
         IN  IF rem = 0 THEN sorted[lo]
             ELSE FAdd(sorted[lo],
                       FMul(Frac(rem, 4), FSub(sorted[lo + 1], sorted[lo])))

Ints(s) == [i \in DOMAIN s |-> FInt(s[i])]

\* Series.describe() of a numeric series
Describe(s) ==
    [count |-> Len(s), mean |-> SeriesMean(s), std |-> SeriesStd(s),
     min |-> SeriesMin(s), q1 |-> Quartile(s, 1), median |-> Quartile(s, 2),
     q3 |-> Quartile(s, 3), max |-> SeriesMax(s)]

\* the numbers of the non-null fields of a numeric column
NumbersOf(values) ==
    LET present == NonNull(values)
    IN  [i \in DOMAIN present |-> FInt(PyFloat(present[i]).val)]

\* the per-group means of a numeric column, the groups without a value left out
GroupMeans(groups, col) ==
    LET means == [i \in DOMAIN groups |->
                     SeriesMean(NumbersOf(ColumnOf(groups[i][2], col)))]
    IN  SelectSeq(means, LAMBDA m : ~IsNaN(m))

---------------------------------------------------------------------------
(***************************************************************************)
(* pandas_stats.py: PandasHelper.do_groupby_stuff                          *)
(***************************************************************************)

\* [col for col in group_columns if col not in df.columns]
MissingColumns(header, cols) == SelectSeq(cols, LAMBDA c : c \notin Range(header))

\* df.groupby(group_columns): rows with a null in a grouping column are
\* dropped (dropna=True)
pandas_groupby(rows, cols) ==
    Partition(SelectSeq(rows, LAMBDA r : \A i \in DOMAIN cols : ~IsNull(r[cols[i]])),
              cols)

\* agg_raises: the columns for which grouped_data[num_col].agg (line 142) or
\* a statistic of its means raises; the except of line 149 then skips the column
do_groupby_stuff(rows, header, cols, agg_raises) ==
    IF rows = <<>> \/ header = <<>> \/ cols = <<>> THEN EmptyDict
    ELSE IF MissingColumns(header, cols) # <<>>
    THEN [kind |-> "error", missing |-> MissingColumns(header, cols)]
    ELSE
        LET grouped_data == pandas_groupby(rows, cols)
            size == Ints([i \in DOMAIN grouped_data |-> Len(grouped_data[i][2])])
            number_cols == SelectSeq(header, LAMBDA c : pandas_is_numeric(rows, c))
            analysed == {c \in Range(number_cols) :
                            c \notin Range(cols) /\ c \notin agg_raises}
        IN  [kind |-> "group_info",
             num_groups |-> Len(grouped_data),
             group_size_stats |-> Describe(size),
             smallest_group |-> SeriesMin(size),
             largest_group |-> SeriesMax(size),
             average_group_size |-> SeriesMean(size),
             number_analysis |->
                 [c \in analysed |->
                     LET means == GroupMeans(grouped_data, c)
                     IN  [avg_of_means |-> SeriesMean(means),
                          std_of_means |-> SeriesStd(means),
                          lowest_group_mean |-> SeriesMin(means),
                          highest_group_mean |-> SeriesMax(means)]]]

---------------------------------------------------------------------------
(***************************************************************************)
(* polars_stats.py: PolarsAnalyzer.group_analysis                          *)
(***************************************************************************)

\* filter_raises: whether Series.filter, handed an expression at line 186,
\* raises
group_analysis(rows, header, cols, filter_raises) ==
    IF rows = <<>> \/ cols = <<>> THEN EmptyDict
    ELSE IF MissingColumns(header, cols) # <<>>
    THEN [kind |-> "error", missing |-> MissingColumns(header, cols)]
    ELSE
        LET groups == Partition(rows, cols)
            len == [i \in DOMAIN groups |-> Len(groups[i][2])]
            group_summary ==
                [kind |-> "group_summary",
                 total_groups |-> Len(groups),
                 smallest_group |-> SeriesMin(Ints(len)),
                 largest_group |-> SeriesMax(Ints(len)),
                 average_group_size |-> SeriesMean(Ints(len)),
                 median_group_size |-> Quartile(Ints(len), 2),
                 sum_of_all_records |-> SumSeq(len)]
            numeric_columns ==
                SelectSeq(header, LAMBDA c : polars_is_numeric(rows, c)
                                             /\ c \notin Range(cols))
        IN  IF numeric_columns = <<>> THEN group_summary
            ELSE group_summary @@
                 [numeric_analysis |->
                     [c \in Range(numeric_columns) |->
                         LET means == GroupMeans(groups, c)
                         IN  IF filter_raises THEN [error |-> "TypeError"]
                             ELSE [overall_mean |-> SeriesMean(means),
                                   mean_variation |-> SeriesStd(means),
                                   lowest_group_mean |-> SeriesMin(means),
                                   highest_group_mean |-> SeriesMax(means),
                                   groups_with_data |-> Len(means)]]]

---------------------------------------------------------------------------
(***************************************************************************)
(* pandas_stats.py: PandasHelper.examine_dataset                           *)
(***************************************************************************)

\* a statistic the model carries as a term over its input, not as a number
Sym(fn, of) == [fn |-> fn, of |-> of]

\* load_my_csv, lines 22-24: a text field that literal_eval reads as a dict
\* is held as that dict
pandas_is_dict(v) == LiteralEval(v).ok /\ LiteralEval(v).is_dict

\* Series.value_counts(): the non-null values by count descending
value_counts(values) == most_common(Counter(NonNull(values)), Len(values))

pandas_column(rows, col) ==
    LET current_col == ColumnOf(rows, col)
        present == NonNull(current_col)
        empty == Len(current_col) - Len(present)
        numeric == pandas_is_numeric(rows, col)
        col_stats ==
            [column_name |-> col,
             data_type |-> IF ~numeric THEN "object"
                           ELSE IF empty = 0 THEN "int64" ELSE "float64",
             total_count |-> Len(current_col),
             not_empty |-> Len(present),
             empty_count |-> empty,
             percent_missing |-> Frac(empty * 100, Len(current_col))]
    IN  IF numeric THEN
            LET num_summary == Describe(NumbersOf(current_col))
            IN  col_stats @@
                [type |-> "numeric",
                 mean_value |-> num_summary.mean,
                 std_dev |-> num_summary.std,
                 min_value |-> num_summary.min,
                 max_value |-> num_summary.max,
                 q1 |-> num_summary.q1,
                 median |-> num_summary.median,
                 q3 |-> num_summary.q3,
                 skew |-> Sym("skew", NumbersOf(current_col)),
                 kurt |-> Sym("kurtosis", NumbersOf(current_col))]
        ELSE IF \E i \in DOMAIN current_col : pandas_is_dict(current_col[i]) THEN
            LET sample == present[1]
                parsed == LiteralEval(sample)
            IN  col_stats @@
                [type |-> "dict-like",
                 sample_keys |-> IF pandas_is_dict(sample)
                                 THEN [i \in DOMAIN parsed.items |-> parsed.items[i].key]
                                 ELSE <<>>,
                 example |-> sample]
        ELSE
            LET freq_counts == value_counts(current_col)
            IN  col_stats @@
                [type |-> "categorical",
                 unique_vals |-> Len(freq_counts),
                 top_value |-> IF Len(freq_counts) > 0 THEN <<freq_counts[1][1]>>
                               ELSE <<>>,
                 top_count |-> IF Len(freq_counts) > 0 THEN freq_counts[1][2] ELSE 0,
                 freq_top5 |-> Take(freq_counts, 5)]

\* the number of null cells of the frame
NullCells(rows, header) ==
    SumSeq([i \in DOMAIN header |->
               Len(ColumnOf(rows, header[i])) - Len(NonNull(ColumnOf(rows, header[i])))])

ColumnsWithNull(rows, header) ==
    Cardinality({c \in Range(header) : \E i \in DOMAIN rows : IsNull(rows[i][c])})

\* ((total - missing) / total) * 100
completeness(total_cells, missing_cells) ==
    Frac((total_cells - missing_cells) * 100, total_cells)

examine_dataset(rows, header, name, elapsed) ==
    IF rows = <<>> \/ header = <<>>
    THEN [kind |-> "error", error |-> "Dataset is empty!"]
    ELSE LET total_cells == Len(rows) * Len(header)
             missing_cells == NullCells(rows, header)
         IN  [kind |-> "report",
              basic_stuff |-> [dataset_name |-> name,
                               row_count |-> Len(rows),
                               col_count |-> Len(header),
                               memory_size |-> Sym("memory_usage", rows),
                               all_columns |-> header],
              col_details |-> [col \in Range(header) |-> pandas_column(rows, col)],
              quality_check |->
                  [data_completeness |-> completeness(total_cells, missing_cells),
                   cols_with_missing |-> ColumnsWithNull(rows, header),
                   total_missing |-> missing_cells],
              processing_time |-> elapsed]

---------------------------------------------------------------------------
(***************************************************************************)
(* polars_stats.py: PolarsAnalyzer.analyze_with_polars                     *)
(***************************************************************************)

\* str(value) of a cell of a text column: the null prints as None
PyStr(v) == IF IsNull(v) THEN "None" ELSE v

\* value_counts().sort('count', descending=True): every value of the column,
\* the null among them, with its count.  Neither call fixes the order of
\* values with equal counts: any table sorted by count may come out.
FreqTables(values) ==
    LET items == Counter(values)
        n == Len(items)
    IN  { [i \in 1..n |-> items[p[i]]] :
            p \in { q \in [1..n -> 1..n] :
                      /\ \A i, j \in 1..n : i # j => q[i] # q[j]
                      /\ \A i \in 1..(n - 1) : items[q[i]][2] >= items[q[i + 1]][2] } }

RECURSIVE TableChoices(_, _)
\* one frequency table for every column (none is drawn for a numeric column)
TableChoices(rows, cols) ==
    IF cols = <<>> THEN { <<>> }
    ELSE { (Head(cols) :> t) @@ f :
             t \in IF polars_is_numeric(rows, Head(cols)) THEN { <<>> }
                   ELSE FreqTables(ColumnOf(rows, Head(cols))),
             f \in TableChoices(rows, Tail(cols)) }

polars_column(rows, col, freq_table) ==
    LET values == ColumnOf(rows, col)
        present == NonNull(values)
        numeric == polars_is_numeric(rows, col)
        col_info ==
            [column |-> col,
             data_type |-> IF numeric THEN "Int64" ELSE "String",
             total_rows |-> Len(rows),
             non_null_rows |-> Len(present),
             null_rows |-> Len(values) - Len(present),
             percent_null |-> Frac((Len(values) - Len(present)) * 100, Len(rows))]
        parsed_value == IF present = <<>> THEN LiteralEval("")
                        ELSE LiteralEval(present[1])
    IN  IF /\ present # <<>>
           /\ ~numeric
           /\ parsed_value.ok
           /\ parsed_value.is_dict
           /\ parsed_value.items # <<>>
        THEN col_info @@
             [category |-> "dictionary",
              example_keys |->
                  Take([i \in DOMAIN parsed_value.items |-> parsed_value.items[i].key],
                       5),
              example_value |-> parsed_value.items[1]]
        ELSE IF numeric THEN
            LET numbers == NumbersOf(values)
            IN  col_info @@
                [category |-> "numbers",
                 avg |-> SeriesMean(numbers),
                 std_dev |-> SeriesStd(numbers),
                 minimum |-> SeriesMin(numbers),
                 maximum |-> SeriesMax(numbers),
                 middle |-> Quartile(numbers, 2),
                 q1 |-> Sym("quantile_25", numbers),
                 q3 |-> Sym("quantile_75", numbers)]
        ELSE col_info @@
             [category |-> "text",
              unique_count |-> Cardinality(Range(values)),
              top_value |-> IF Len(freq_table) > 0 THEN <<freq_table[1][1]>> ELSE <<>>,
              top_frequency |-> IF Len(freq_table) > 0 THEN freq_table[1][2] ELSE 0,
              top_5_frequencies |->
                  [i \in 1..(IF Len(freq_table) < 5 THEN Len(freq_table) ELSE 5) |->
                      <<PyStr(freq_table[i][1]), freq_table[i][2]>>]]

analyze_with_polars(rows, header, name, elapsed, freq_tables) ==
    IF rows = <<>> THEN [kind |-> "error", error |-> "Empty dataset!"]
    ELSE LET total_possible_values == Len(rows) * Len(header)
             actual_null_values == NullCells(rows, header)
         IN  [kind |-> "report",
              dataset_basics |-> [name |-> name,
                                  num_rows |-> Len(rows),
                                  num_cols |-> Len(header),
                                  memory_estimate |-> Sym("estimated_size", rows),
                                  column_list |-> header],
              column_analysis |->
                  [col \in Range(header) |-> polars_column(rows, col, freq_tables[col])],
              data_quality |->
                  [completeness_percent |->
                       completeness(total_possible_values, actual_null_values),
                   columns_with_nulls |-> ColumnsWithNull(rows, header),
                   total_null_count |-> actual_null_values],
              analysis_time |-> elapsed]

---------------------------------------------------------------------------
(***************************************************************************)
(* The reader and the calls of the drivers.                                *)
(***************************************************************************)

DatasetName == "d"

ProfileHeaders ==
    { <<"amount">>, <<"delivery_by_region">>, <<"demographic_distribution">>,
      <<"amount", "delivery_by_region">> }

NoCall == [op |-> "none", cols |-> <<>>]

InitWith(headers) ==
    /\ column_names \in headers
    /\ data_rows = <<>>
    /\ loaded = FALSE
    /\ call = NoCall
    /\ result = None
    /\ prev_result = None

\* read_csv_file: one more row of the file is appended
ReadRow(values, limit) ==
    /\ ~loaded
    /\ Len(data_rows) < limit
    /\ \E row \in [Range(column_names) -> values] :
           data_rows' = Append(data_rows, row)
    /\ UNCHANGED <<column_names, loaded, call, result, prev_result>>

\* read_csv_file returns the rows (none when the file is missing or empty)
ReadDone ==
    /\ ~loaded
    /\ loaded' = TRUE
    /\ UNCHANGED <<column_names, data_rows, call, result, prev_result>>

AnalyzeWholeDataset ==
    /\ loaded
    /\ \E elapsed \in 0..MaxElapsed :
           result' = analyze_whole_dataset(data_rows, DatasetName, column_names,
                                           elapsed)
    /\ call' = [op |-> "analyze_whole_dataset", cols |-> <<>>]
    /\ prev_result' = IF call.op = "analyze_whole_dataset" THEN result ELSE None
    /\ UNCHANGED <<column_names, data_rows, loaded>>

GroupDataBy(choices) ==
    /\ loaded
    /\ \E cols \in choices :
           /\ result' = group_data_by(data_rows, cols)
           /\ call' = [op |-> "group_data_by", cols |-> cols]
    /\ prev_result' = None
    /\ UNCHANGED <<column_names, data_rows, loaded>>

ProfileRowLimit == IF Len(column_names) = 1 THEN MaxRows ELSE MaxWideRows

ProfileGroupings == {<<>>} \cup {<<c>> : c \in Range(column_names)}

Init == InitWith(ProfileHeaders)

Next ==
    \/ ReadRow(ProfileValues, ProfileRowLimit)
    \/ ReadDone
    \/ AnalyzeWholeDataset
    \/ GroupDataBy(ProfileGroupings)

Spec == Init /\ [][Next]_vars


DoGroupbyStuff(choices) ==
    /\ loaded
    /\ \E cols \in choices, agg_raises \in SUBSET Range(column_names) :
           /\ result' = do_groupby_stuff(data_rows, column_names, cols, agg_raises)
           /\ call' = [op |-> "do_groupby_stuff", cols |-> cols,
                       failed |-> agg_raises]
    /\ prev_result' = None
    /\ UNCHANGED <<column_names, data_rows, loaded>>

GroupAnalysis(choices) ==
    /\ loaded
    /\ \E cols \in choices, filter_raises \in BOOLEAN :
           /\ result' = group_analysis(data_rows, column_names, cols, filter_raises)
           /\ call' = [op |-> "group_analysis", cols |-> cols,
                       failed |-> IF filter_raises THEN Range(column_names) ELSE {}]
    /\ prev_result' = None
    /\ UNCHANGED <<column_names, data_rows, loaded>>

GroupHeaders == { <<"page_id", "ad_id">> }

\* the groupings of main (page_id; page_id and ad_id), no grouping column, and
\* groupings that name a column the file does not have
Groupings ==
    { <<>>, <<"page_id">>, <<"page_id", "ad_id">>, <<"zz">>, <<"page_id", "zz">> }

InitGroup == InitWith(GroupHeaders)

NextGroup ==
    \/ ReadRow(GroupValues, MaxGroupRows)
    \/ ReadDone
    \/ GroupDataBy(Groupings)
    \/ DoGroupbyStuff(Groupings)
    \/ GroupAnalysis(Groupings)

SpecGroup == InitGroup /\ [][NextGroup]_vars

AggregateHeaders == { <<"page_id", "amount", "views">> }

AggregateGroupings == { <<"page_id">>, <<"page_id", "views">> }

InitAggregate == InitWith(AggregateHeaders)

\* the frames of main's grouping calls that have numeric columns to aggregate
NextAggregate ==
    \/ ReadRow(AggregateValues, MaxAggregateRows)
    \/ ReadDone
    \/ DoGroupbyStuff(AggregateGroupings)
    \/ GroupAnalysis(AggregateGroupings)

SpecAggregate == InitAggregate /\ [][NextAggregate]_vars


ExamineDataset ==
    /\ loaded
    /\ \E elapsed \in 0..MaxElapsed :
           result' = examine_dataset(data_rows, column_names, DatasetName, elapsed)
    /\ call' = [op |-> "examine_dataset", cols |-> <<>>]
    /\ prev_result' = IF call.op = "examine_dataset" THEN result ELSE None
    /\ UNCHANGED <<column_names, data_rows, loaded>>

AnalyzeWithPolars ==
    /\ loaded
    /\ \E elapsed \in 0..MaxElapsed,
          freq_tables \in TableChoices(data_rows, column_names) :
           result' = analyze_with_polars(data_rows, column_names, DatasetName,
                                         elapsed, freq_tables)
    /\ call' = [op |-> "analyze_with_polars", cols |-> <<>>]
    /\ prev_result' = None
    /\ UNCHANGED <<column_names, data_rows, loaded>>

FrameHeaders == { <<"amount", "label">> }

InitFrame == InitWith(FrameHeaders)

NextFrame ==
    \/ ReadRow(FrameValues, MaxFrameRows)
    \/ ReadDone
    \/ AnalyzeWholeDataset
    \/ ExamineDataset
    \/ AnalyzeWithPolars

SpecFrame == InitFrame /\ [][NextFrame]_vars

NestedHeaders == { <<"delivery_by_region">>, <<"demographic_distribution">> }

InitNested == InitWith(NestedHeaders)

\* the pure-Python profile of a file with one nested column
NextNested ==
    \/ ReadRow(NestedValues, MaxNestedRows)
    \/ ReadDone
    \/ AnalyzeWholeDataset

SpecNested == InitNested /\ [][NextNested]_vars

NumericHeaders == { <<"amount">> }

InitNumeric == InitWith(NumericHeaders)

\* the pure-Python profile of a file with one column of numbers and stragglers
NextNumeric ==
    \/ ReadRow(NumericValues, MaxNumericRows)
    \/ ReadDone
    \/ AnalyzeWholeDataset

SpecNumeric == InitNumeric /\ [][NextNumeric]_vars

ClassifyHeaders == { <<"amount">>, <<"delivery_by_region">> }

InitClassify == InitWith(ClassifyHeaders)

\* the three profilers on a one-column file some fields of which are dict
\* literals
NextClassify ==
    \/ ReadRow(ClassifyValues, MaxClassifyRows)
    \/ ReadDone
    \/ AnalyzeWholeDataset
    \/ ExamineDataset
    \/ AnalyzeWithPolars

SpecClassify == InitClassify /\ [][NextClassify]_vars

\* the two profilers that main may run again on the rows it holds
NextRepeat ==
    \/ ReadRow(FrameValues, MaxFrameRows)
    \/ ReadDone
    \/ AnalyzeWholeDataset
    \/ ExamineDataset

SpecRepeat == InitFrame /\ [][NextRepeat]_vars

---------------------------------------------------------------------------
(***************************************************************************)
(* Properties.                                                             *)
(***************************************************************************)

\* a field that is empty or holds only whitespace
IsBlank(v) == v \in {"", " "}

\* the number of fields of a column that satisfy Test
CountIn(col, Test(_)) ==
    Cardinality({i \in DOMAIN data_rows : Test(RowGet(data_rows[i], col))})

PresentCount(col) == CountIn(col, LAMBDA v : ~IsBlank(v))

ParseableCount(col) == CountIn(col, LAMBDA v : ~IsBlank(v) /\ PyFloat(v).ok)

NestedNames == {"delivery_by_region", "demographic_distribution"}

PureReport == call.op = "analyze_whole_dataset" /\ result.kind = "report"

StrictMajority(col) ==
    (result.column_info[col].data_type = "numbers")
        <=> (2 * ParseableCount(col) > PresentCount(col))

GroupOps == {"group_data_by", "do_groupby_stuff", "group_analysis"}

GroupKinds == {"groups", "group_info", "group_summary"}

\* the sum of the group sizes a group report states
GroupSizeSum(r) ==
    CASE r.kind = "groups" ->
            SumSeq([i \in DOMAIN r.group_details |-> r.group_details[i][2].size])
      [] r.kind = "group_info" ->
            IF IsNaN(r.group_size_stats.mean) THEN 0
            ELSE (r.group_size_stats.mean.num * r.group_size_stats.count)
                     \div r.group_size_stats.mean.den
      [] r.kind = "group_summary" -> r.sum_of_all_records

\* the number of groups a group report states
GroupCount(r) ==
    CASE r.kind = "groups" -> r.total_groups
      [] r.kind = "group_info" -> r.num_groups
      [] r.kind = "group_summary" -> r.total_groups

ValidGrouping ==
    /\ call.op \in GroupOps
    /\ data_rows # <<>>
    /\ call.cols # <<>>
    /\ \A i \in DOMAIN call.cols : call.cols[i] \in Range(column_names)

\* C2, as claimed: for a non-empty dataset and a non-empty list of grouping
\* columns, the sizes of the groups of the report sum to the number of
\* records.
C2_GroupSizesSumToRecordCount ==
    (ValidGrouping /\ result.kind \in GroupKinds)
        => GroupSizeSum(result) = Len(data_rows)

\* C3, as claimed: grouping a non-empty dataset by a list that names a column
\* the dataset does not have returns the error naming the absent columns, and
\* no group statistics.
C3_MissingColumnsIsAnError ==
    ( /\ call.op \in GroupOps
      /\ data_rows # <<>>
      /\ \E i \in DOMAIN call.cols : call.cols[i] \notin Range(column_names) )
        => /\ result.kind = "error"
           /\ result.missing =
                 SelectSeq(call.cols, LAMBDA c : c \notin Range(column_names))

\* C7, as claimed: a record with a missing value in a grouping column stays in
\* the grouping, under a key with the empty string for that column: the report
\* counts one group per distinct key of the records, those keys included.
C7_MissingKeyFormsAGroup ==
    ( /\ ValidGrouping
      /\ result.kind \in GroupKinds
      /\ \E i \in DOMAIN data_rows, j \in DOMAIN call.cols :
             data_rows[i][call.cols[j]] = "" )
        => GroupCount(result) =
               Cardinality({GroupKey(data_rows[i], call.cols) : i \in DOMAIN data_rows})

\* C8, as claimed: the group report of group_data_by holds one entry per
\* distinct key tuple, each with the number of records of that key, and
\* total_groups is the number of entries.
C8_OneEntryPerKey ==
    (call.op = "group_data_by" /\ result.kind = "groups") =>
        LET keys == {GroupKey(data_rows[i], call.cols) : i \in DOMAIN data_rows}
            details == result.group_details
        IN  /\ Len(details) = Cardinality(keys)
            /\ result.total_groups = Len(details)
            /\ \A k \in keys :
                   \E e \in DOMAIN details :
                       /\ details[e][2].values = ZipDict(call.cols, k)
                       /\ details[e][2].size =
                              Cardinality({i \in DOMAIN data_rows :
                                             GroupKey(data_rows[i], call.cols) = k})

EmptyMarker(op) ==
    IF op = "analyze_whole_dataset"
    THEN [kind |-> "error", error |-> "No data found!"]
    ELSE EmptyDict

\* C5: on a dataset of zero records, profiling returns the error marker
\* 'No data found!' and grouping returns the empty dict; neither computes a
\* statistic, so neither divides by a zero count.
C5_EmptyDatasetMarker ==
    (loaded /\ data_rows = <<>> /\ call.op \in {"analyze_whole_dataset", "group_data_by"})
        => result = EmptyMarker(call.op)

\* C5 witness: grouping zero records by a column was called.
C5_GroupedNoRecords ==
    /\ loaded
    /\ data_rows = <<>>
    /\ call.op = "group_data_by"
    /\ call.cols # <<>>
    /\ result = EmptyDict

\* what a present value adds to a nested total: the sum of the field over its
\* sub-records when it reads as a mapping of mappings, otherwise 0
Contribution(v, field) ==
    LET parsed == LiteralEval(v)
    IN  IF /\ parsed.ok
           /\ parsed.is_dict
           /\ \A i \in DOMAIN parsed.items : parsed.items[i].is_dict
        THEN SumSeq([i \in DOMAIN parsed.items |->
                        DictGet(parsed.items[i].fields, field, 0)])
        ELSE 0

NestedTotal(col, field) ==
    SumSeq([i \in DOMAIN data_rows |->
               IF IsBlank(RowGet(data_rows[i], col)) THEN 0
               ELSE Contribution(RowGet(data_rows[i], col), field)])

\* C6, as claimed: profiling never raises on a nested column; a present value
\* that does not read as a mapping of mappings adds 0 to both totals and the
\* other records are still summed.
C6_NestedProfilingNeverRaises ==
    (call.op = "analyze_whole_dataset" /\ data_rows # <<>>) =>
        /\ result.kind = "report"
        /\ \A col \in DOMAIN result.column_info \cap NestedNames :
               /\ result.column_info[col].total_spend = NestedTotal(col, "spend")
               /\ result.column_info[col].total_impressions
                      = NestedTotal(col, "impressions")

BlankCount(col) == CountIn(col, IsBlank)

\* C9, as claimed: in every column profile the missing count is the number of
\* records whose field is empty or whitespace-only, the present count is the
\* number of the others, and the two sum to the number of records.
C9_MissingCountsBlankFields ==
    /\ PureReport =>
           \A col \in DOMAIN result.column_info :
               LET info == result.column_info[col]
               IN  /\ info.missing_data = BlankCount(col)
                   /\ info.has_data = Len(data_rows) - BlankCount(col)
                   /\ info.total_rows = Len(data_rows)
    /\ (call.op = "analyze_with_polars" /\ result.kind = "report") =>
           \A col \in DOMAIN result.column_analysis :
               LET info == result.column_analysis[col]
               IN  /\ info.null_rows = BlankCount(col)
                   /\ info.non_null_rows = Len(data_rows) - BlankCount(col)
                   /\ info.total_rows = Len(data_rows)

\* the completeness a quality report states
Completeness(r) ==
    IF call.op = "examine_dataset" THEN r.quality_check.data_completeness
    ELSE r.data_quality.completeness_percent

QualityReport ==
    call.op \in {"examine_dataset", "analyze_with_polars"} /\ result.kind = "report"

NoBlankCell ==
    \A i \in DOMAIN data_rows, c \in Range(column_names) : ~IsBlank(data_rows[i][c])

\* C4, as claimed: the completeness of a quality report lies in [0, 100] and
\* is 100 exactly when no cell of the dataset is missing (blank).
C4_CompleteIffNoBlankCell ==
    QualityReport =>
        /\ ~FLess(Completeness(result), FInt(0))
        /\ ~FLess(FInt(100), Completeness(result))
        /\ (Completeness(result) = FInt(100)) <=> NoBlankCell

ProfiledTwice ==
    /\ call.op \in {"analyze_whole_dataset", "examine_dataset"}
    /\ prev_result # None

\* a report with its elapsed-time field cleared
Untimed(r) ==
    IF r.kind # "report" THEN r
    ELSE IF call.op = "analyze_whole_dataset" THEN [r EXCEPT !.time_taken = 0]
    ELSE [r EXCEPT !.processing_time = 0]

NumericColumns ==
    {c \in Range(column_names) :
        /\ \A i \in DOMAIN data_rows : data_rows[i][c] = "" \/ PyFloat(data_rows[i][c]).ok
        /\ \E i \in DOMAIN data_rows : data_rows[i][c] # ""}

\* the per-column block of a group report
ColumnAggregates(r) ==
    IF r.kind = "group_info" THEN r.number_analysis
    ELSE IF "numeric_analysis" \in DOMAIN r THEN r.numeric_analysis
    ELSE <<>>

\* C11, as claimed: in a group report every numeric, non-grouping column has
\* an entry: an error entry when its cross-group computation failed, its
\* aggregates otherwise; a failed column is never left out and never stops
\* the other columns from being aggregated.
C11_FailedColumnHasErrorEntry ==
    ( /\ call.op \in {"do_groupby_stuff", "group_analysis"}
      /\ result.kind \in {"group_info", "group_summary"} )
        => \A c \in NumericColumns \ Range(call.cols) :
               /\ c \in DOMAIN ColumnAggregates(result)
               /\ ("error" \in DOMAIN ColumnAggregates(result)[c]) <=> (c \in call.failed)

ProfileOps == {"analyze_whole_dataset", "examine_dataset", "analyze_with_polars"}

\* the column entries of a report of any of the three profilers
ColumnEntries(r) ==
    CASE call.op = "analyze_whole_dataset" -> r.column_info
      [] call.op = "examine_dataset" -> r.col_details
      [] call.op = "analyze_with_polars" -> r.column_analysis

\* the kind a column entry states: Numeric, NestedAggregate or Categorical
KindOf(info) ==
    CASE call.op = "analyze_whole_dataset" ->
            (CASE info.data_type = "numbers" -> "Numeric"
               [] info.data_type = "nested_dict" -> "NestedAggregate"
               [] OTHER -> "Categorical")
      [] call.op = "examine_dataset" ->
            (CASE info.type = "numeric" -> "Numeric"
               [] info.type = "dict-like" -> "NestedAggregate"
               [] OTHER -> "Categorical")
      [] call.op = "analyze_with_polars" ->
            (CASE info.category = "numbers" -> "Numeric"
               [] info.category = "dictionary" -> "NestedAggregate"
               [] OTHER -> "Categorical")

\* the present (non-blank) fields of a column, in record order
PresentValues(col) ==
    SelectSeq([i \in DOMAIN data_rows |-> RowGet(data_rows[i], col)],
              LAMBDA v : ~IsBlank(v))

ParsesToMapping(v) == LiteralEval(v).ok /\ LiteralEval(v).is_dict

FirstPresentIsMapping(col) ==
    PresentValues(col) # <<>> /\ ParsesToMapping(PresentValues(col)[1])

\* C12, as claimed: in every profile a column that is not Numeric is
\* NestedAggregate exactly when its first present value parses to a mapping,
\* whatever the column is named.
C12_NestedIffFirstValueIsMapping ==
    (call.op \in ProfileOps /\ result.kind = "report") =>
        \A col \in DOMAIN ColumnEntries(result) :
            KindOf(ColumnEntries(result)[col]) # "Numeric" =>
                ( (KindOf(ColumnEntries(result)[col]) = "NestedAggregate")
                      <=> FirstPresentIsMapping(col) )

\* the sub-records of a present value that parses to a mapping of mappings
SubRecords(v) ==
    IF ParsesToMapping(v) /\ \A i \in DOMAIN LiteralEval(v).items :
                                 LiteralEval(v).items[i].is_dict
    THEN LiteralEval(v).items ELSE <<>>

\* the top key of a value as claimed: the first sub-key, in iteration order,
\* whose spend is the maximum
TopKey(v) ==
    LET items == SubRecords(v)
        spend(i) == DictGet(items[i].fields, "spend", 0)
    IN  items[CHOOSE i \in DOMAIN items :
                  /\ \A j \in DOMAIN items : spend(j) <= spend(i)
                  /\ \A j \in 1..(i - 1) : spend(j) < spend(i)].key

\* the records of a column that have a top key
RecordsWithTop(col) ==
    {i \in DOMAIN data_rows : SubRecords(RowGet(data_rows[i], col)) # <<>>}

\* how many records have k as their top key
TopCount(col, k) ==
    Cardinality({i \in RecordsWithTop(col) : TopKey(RowGet(data_rows[i], col)) = k})

\* C13, as claimed: every parsed record of the demographic column with a
\* sub-key has as its top key the first sub-key of maximum spend (also when
\* every spend is 0) and adds one to the count of that key, so the most
\* targeted key reported is a key of the highest such count, with that count.
C13_TopKeyIsFirstMaxSpend ==
    ( /\ PureReport
      /\ "demographic_distribution" \in DOMAIN result.column_info )
        => LET col == "demographic_distribution"
               most == result.column_info[col].most_targeted_demo
           IN  IF RecordsWithTop(col) = {} THEN most = <<>>
               ELSE /\ Len(most) = 1
                    /\ most[1][2] = TopCount(col, most[1][1])
                    /\ \A i \in RecordsWithTop(col) :
                           TopCount(col, TopKey(RowGet(data_rows[i], col))) <= most[1][2]

\* the distinct present values of a column
DistinctPresent(col) == Range(PresentValues(col))

\* the record of the first occurrence of a present value
FirstSeen(col, v) ==
    CHOOSE i \in DOMAIN data_rows :
        /\ RowGet(data_rows[i], col) = v
        /\ \A j \in 1..(i - 1) : RowGet(data_rows[j], col) # v

\* v ranks before w: a higher count, or the same count and seen first
RanksBefore(col, v, w) ==
    \/ Count(PresentValues(col), v) > Count(PresentValues(col), w)
    \/ /\ Count(PresentValues(col), v) = Count(PresentValues(col), w)
       /\ FirstSeen(col, v) < FirstSeen(col, w)

\* table is the top-5 frequency table of the column, as claimed
IsTopFive(table, col) ==
    /\ Len(table) = IF Cardinality(DistinctPresent(col)) < 5
                    THEN Cardinality(DistinctPresent(col)) ELSE 5
    /\ \A i \in DOMAIN table :
           /\ table[i][1] \in DistinctPresent(col)
           /\ table[i][2] = Count(PresentValues(col), table[i][1])
           /\ \A j \in (i + 1)..Len(table) : RanksBefore(col, table[i][1], table[j][1])
           /\ \A w \in DistinctPresent(col) \ {table[j][1] : j \in DOMAIN table} :
                  RanksBefore(col, table[i][1], w)

\* the frequency table, the unique count and the top entry of a Categorical
\* column entry
CategoricalBlock(info) ==
    CASE call.op = "analyze_whole_dataset" ->
            [table |-> info.most_common, unique |-> info.different_values,
             top |-> Take(info.most_common, 1)]
      [] call.op = "examine_dataset" ->
            [table |-> info.freq_top5, unique |-> info.unique_vals,
             top |-> IF info.top_value = <<>> THEN <<>>
                     ELSE << <<info.top_value[1], info.top_count>> >>]
      [] call.op = "analyze_with_polars" ->
            [table |-> info.top_5_frequencies, unique |-> info.unique_count,
             top |-> IF info.top_value = <<>> THEN <<>>
                     ELSE << <<PyStr(info.top_value[1]), info.top_frequency>> >>]

\* C14, as claimed: for a Categorical column the top-5 table lists at most
\* five distinct present values by count descending, equal counts in order of
\* first occurrence; its first entry is the top value with its count; and
\* unique_count is the number of distinct present values.
C14_TopFiveByCountThenFirstSeen ==
    (call.op \in ProfileOps /\ result.kind = "report") =>
        \A col \in DOMAIN ColumnEntries(result) :
            KindOf(ColumnEntries(result)[col]) = "Categorical" =>
                LET block == CategoricalBlock(ColumnEntries(result)[col])
                IN  /\ IsTopFive(block.table, col)
                    /\ block.top = Take(block.table, 1)
                    /\ block.unique = Cardinality(DistinctPresent(col))

AllBlank(col) == data_rows # <<>> /\ PresentCount(col) = 0

ParsedNumbers(col) ==
    LET parseable == SelectSeq(PresentValues(col), LAMBDA v : PyFloat(v).ok)
    IN  [i \in DOMAIN parseable |-> PyFloat(parseable[i]).val]

NumbersColumn(col) ==
    /\ PureReport
    /\ col \in DOMAIN result.column_info
    /\ result.column_info[col].data_type = "numbers"

\* C16: for a column classified numbers, the average is the sum of the
\* present values that parse divided by their count, and smallest and biggest
\* are the least and the greatest of them; an unparseable present value adds
\* nothing to the sum or to the count.
C16_StatsOverParseableOnly ==
    \A col \in Range(column_names) :
        NumbersColumn(col) =>
            LET numbers == ParsedNumbers(col)
                info == result.column_info[col]
            IN  /\ numbers # <<>>
                /\ info.average = Frac(SumSeq(numbers), Len(numbers))
                /\ info.smallest \in Range(numbers)
                /\ \A i \in DOMAIN numbers : info.smallest <= numbers[i]
                /\ info.biggest \in Range(numbers)
                /\ \A i \in DOMAIN numbers : numbers[i] <= info.biggest

\* C16 witness: a numbers column that holds 5, 7 and an unparseable straggler
\* has average 6, smallest 5 and biggest 7.
C16_StragglerSkipped ==
    /\ NumbersColumn("amount")
    /\ Range(PresentValues("amount")) = {"5", "7", "x"}
    /\ Len(PresentValues("amount")) = 3
    /\ result.column_info["amount"].average = FInt(6)
    /\ result.column_info["amount"].smallest = 5
    /\ result.column_info["amount"].biggest = 7

\* the sum of the squared deviations of the numbers from their mean
SquaredDeviations(numbers) ==
    LET mean == Frac(SumSeq(numbers), Len(numbers))
    IN  FSum([i \in DOMAIN numbers |->
                 FMul(FSub(FInt(numbers[i]), mean), FSub(FInt(numbers[i]), mean))])

\* C17: the spread of a numbers column of n numbers is 0 when n < 2 and
\* otherwise the non-negative root of the sum of the squared deviations from
\* the mean divided by n - 1.
C17_SampleStdDev ==
    \A col \in Range(column_names) :
        NumbersColumn(col) =>
            LET numbers == ParsedNumbers(col)
                n == Len(numbers)
                variance == result.column_info[col].spread.sqrt_of
            IN  IF n < 2 THEN variance = FInt(0)
                ELSE /\ variance = Frac(SquaredDeviations(numbers).num,
                                        SquaredDeviations(numbers).den * (n - 1))
                     /\ ~FLess(variance, FInt(0))

\* C17 witness: the spread of the two numbers 5 and 7 is the root of 2.
C17_SpreadOfTwoNumbers ==
    /\ NumbersColumn("amount")
    /\ ParsedNumbers("amount") = <<5, 7>>
    /\ result.column_info["amount"].spread = [sqrt_of |-> FInt(2)]

\* C18: in a report the total_spend of a nested column is the sum of the spend
\* fields over every sub-record of every present value that parses to a
\* mapping of mappings, and total_impressions the same sum of the impressions
\* fields; a sub-record without the field, and a value that does not parse,
\* add 0.
C18_NestedTotalsAreSums ==
    PureReport =>
        \A col \in DOMAIN result.column_info \cap NestedNames :
            /\ result.column_info[col].total_spend = NestedTotal(col, "spend")
            /\ result.column_info[col].total_impressions
                   = NestedTotal(col, "impressions")

\* C18 witness: a delivery_by_region column that holds a value of two
\* sub-records, one without impressions, a value whose sub-records have no
\* impressions, and text that does not parse: the totals are 25 and 1.
C18_TotalsOverSubRecords ==
    /\ PureReport
    /\ "delivery_by_region" \in DOMAIN result.column_info
    /\ Len(data_rows) = 3
    /\ {data_rows[i]["delivery_by_region"] : i \in DOMAIN data_rows}
           = {DictLast, DictTie, "x"}
    /\ result.column_info["delivery_by_region"].total_spend = 25
    /\ result.column_info["delivery_by_region"].total_impressions = 1

\* the first record whose grouping values are those of a group entry
FirstRecordOf(values) ==
    CHOOSE i \in DOMAIN data_rows :
        /\ ZipDict(call.cols, GroupKey(data_rows[i], call.cols)) = values
        /\ \A j \in 1..(i - 1) :
               ZipDict(call.cols, GroupKey(data_rows[j], call.cols)) # values

\* C19, as claimed: the entries of a group report stand in the order in which
\* their keys are first seen in the records: of two entries, the one that
\* comes first is of the key whose first record comes first.
C19_GroupsInFirstSeenOrder ==
    (call.op = "group_data_by" /\ result.kind = "groups") =>
        \A e1, e2 \in DOMAIN result.group_details :
            e1 < e2 =>
                FirstRecordOf(result.group_details[e1][2].values)
                    < FirstRecordOf(result.group_details[e2][2].values)

\* the column count a report states
ColumnCount(r) ==
    IF call.op = "analyze_whole_dataset" THEN r.dataset_info.num_columns
    ELSE r.dataset_basics.num_cols

\* C20, as claimed: whole-dataset profiling of a non-empty dataset returns a
\* report with one column entry for every column name of the first record and
\* for no other name, and the column count it states is the number of those
\* entries; a failure in one column does not take the entries of the other
\* columns away.
C20_OneEntryPerColumn ==
    ( /\ call.op \in {"analyze_whole_dataset", "analyze_with_polars"}
      /\ data_rows # <<>> )
        => /\ result.kind = "report"
           /\ DOMAIN ColumnEntries(result) = DOMAIN data_rows[1]
           /\ ColumnCount(result) = Cardinality(DOMAIN ColumnEntries(result))

=============================================================================
